---- MODULE Spec2Model ----
(***************************************************************************)
(* FingerprintSDK (src/src/fingerprint-sdk.ts): the weight table, the      *)
(* weighted aggregation generateVisitorId, the entropy-driven              *)
(* adjustWeights, and the callers that interleave with their awaits.       *)
(***************************************************************************)
EXTENDS Integers, Sequences, FiniteSets, Bags, TLC

(***************************************************************************)
(* NUMBERS.  A JavaScript number is modelled as a pair <<n, d>>: for d > 0 *)
(* the exact rational n/d in lowest terms; <<0,0>> is NaN, <<1,0>> is      *)
(* +Infinity and <<-1,0>> is -Infinity.  The operators follow IEEE-754 for *)
(* the special values (x/0, Inf-Inf, 0*Inf, ...); rounding error and the   *)
(* sign of zero are abstracted away.                                       *)
(***************************************************************************)
Abs(n) == IF n < 0 THEN -n ELSE n

RECURSIVE GCD(_, _)
GCD(a, b) == IF b = 0 THEN a ELSE GCD(b, a % b)

\* the number n/d (d # 0) in lowest terms with a positive denominator
Rat(n, d) ==
  LET s == IF d < 0 THEN -1 ELSE 1
      g == GCD(Abs(n), Abs(d))
  IN  <<(s * n) \div g, (s * d) \div g>>

NaN == <<0, 0>>
PosInf == <<1, 0>>
NegInf == <<-1, 0>>
Zero == <<0, 1>>
One == <<1, 1>>

IsNaN(x) == x = NaN
IsFinite(x) == x[2] # 0
Sgn(x) == IF x[1] > 0 THEN 1 ELSE IF x[1] < 0 THEN -1 ELSE 0

\* x + y
Add(x, y) ==
  IF IsNaN(x) \/ IsNaN(y) THEN NaN
  ELSE IF ~IsFinite(x) THEN (IF ~IsFinite(y) /\ y # x THEN NaN ELSE x)
  ELSE IF ~IsFinite(y) THEN y
  ELSE LET g == GCD(x[2], y[2])
           l == (x[2] \div g) * y[2]
       IN  Rat(x[1] * (l \div x[2]) + y[1] * (l \div y[2]), l)

\* x * y
Mul(x, y) ==
  IF IsNaN(x) \/ IsNaN(y) THEN NaN
  ELSE IF ~IsFinite(x) \/ ~IsFinite(y)
       THEN (IF Sgn(x) * Sgn(y) = 0 THEN NaN ELSE <<Sgn(x) * Sgn(y), 0>>)
  ELSE LET g1 == GCD(Abs(x[1]), y[2])
           g2 == GCD(Abs(y[1]), x[2])
       IN  <<(x[1] \div g1) * (y[1] \div g2), (x[2] \div g2) * (y[2] \div g1)>>

\* x / y
Div(x, y) ==
  IF IsNaN(x) \/ IsNaN(y) THEN NaN
  ELSE IF ~IsFinite(y) THEN (IF IsFinite(x) THEN Zero ELSE NaN)
  ELSE IF y[1] = 0
       THEN (IF Sgn(x) = 0 THEN NaN ELSE <<Sgn(x), 0>>)
  ELSE Mul(x, Rat(y[2], y[1]))

\* x < y  (false as soon as one side is NaN)
Less(x, y) ==
  IF IsNaN(x) \/ IsNaN(y) THEN FALSE
  ELSE IF ~IsFinite(x) THEN x = NegInf /\ y # NegInf
  ELSE IF ~IsFinite(y) THEN y = PosInf
  ELSE x[1] * y[2] < y[1] * x[2]

\* Math.floor(x)
Floor(x) == IF IsFinite(x) THEN <<x[1] \div x[2], 1>> ELSE x

(***************************************************************************)
(* STRINGS.  A string is a sequence of runs [u |-> chars, n |-> count]:    *)
(* the characters u (a non-empty sequence of one-character strings)        *)
(* repeated n >= 1 times; the string is the concatenation of its runs and  *)
(* '' is <<>>.  Adjacent runs of the same unit are merged, so two strings  *)
(* built from units of one length are equal exactly when their values are. *)
(***************************************************************************)
Lit(chars) == IF chars = <<>> THEN <<>> ELSE <<[u |-> chars, n |-> 1]>>

\* the sum of the values, all > 0, of the function f
Sum(f) == BagCardinality(f)

\* str.length
StrLen(s) == Sum([r \in 1..Len(s) |-> Len(s[r].u) * s[r].n])

\* the number of characters before run r of s
Offset(s, r) == StrLen(SubSeq(s, 1, r - 1))

\* a + b on strings
StrConcat(a, b) ==
  IF a = <<>> THEN b
  ELSE IF b = <<>> THEN a
  ELSE IF a[Len(a)].u = b[1].u
       THEN SubSeq(a, 1, Len(a) - 1)
            \o <<[u |-> b[1].u, n |-> a[Len(a)].n + b[1].n]>>
            \o Tail(b)
  ELSE a \o b

\* s concatenated k >= 0 times
StrTimes(s, k) ==
  IF k = 0 \/ s = <<>> THEN <<>>
  ELSE IF Len(s) = 1 THEN <<[u |-> s[1].u, n |-> s[1].n * k]>>
  ELSE [i \in 1..(Len(s) * k) |-> s[((i - 1) % Len(s)) + 1]]

(***************************************************************************)
(* createHash.  crypto.subtle.digest('SHA-256', ...) belongs to the        *)
(* platform, not to the repository; SubtleDigest stands in for it with the *)
(* same interface: a deterministic function of every byte of the message   *)
(* and of its position, to HashBytes bytes (a position-weighted checksum   *)
(* over 16 bits, the two bytes repeated).  Like SHA-256's, its range holds *)
(* digests of every entropy, constant-character ones included.             *)
(***************************************************************************)
HashBytes == 32

HexDigits == <<"0", "1", "2", "3", "4", "5", "6", "7", "8", "9", "a", "b", "c", "d", "e", "f">>

\* TextEncoder.encode on the characters the model uses
CharCode ==
  (" " :> 32) @@ ("," :> 44) @@ ("~" :> 126)
  @@ ("0" :> 48) @@ ("1" :> 49) @@ ("2" :> 50) @@ ("3" :> 51) @@ ("4" :> 52)
  @@ ("5" :> 53) @@ ("6" :> 54) @@ ("7" :> 55) @@ ("8" :> 56) @@ ("9" :> 57)
  @@ ("A" :> 65) @@ ("G" :> 71) @@ ("N" :> 78) @@ ("P" :> 80)
  @@ ("a" :> 97) @@ ("b" :> 98) @@ ("c" :> 99) @@ ("d" :> 100) @@ ("e" :> 101)
  @@ ("f" :> 102) @@ ("g" :> 103) @@ ("i" :> 105) @@ ("l" :> 108) @@ ("n" :> 110)
  @@ ("o" :> 111) @@ ("r" :> 114) @@ ("t" :> 116)

\* a * b modulo 2^16, for a and b below 2^16, without leaving 32-bit integers
MulMod(a, b) == (((a * (b \div 256)) % 65536) * 256 + a * (b % 256)) % 65536

\* n * (n - 1) / 2 modulo 2^16
Triangle(n) ==
  IF n % 2 = 0 THEN MulMod((n \div 2) % 65536, (n - 1) % 65536)
  ELSE MulMod(n % 65536, ((n - 1) \div 2) % 65536)

\* the sum of position * byte over run r of s, positions counted from the
\* start of s, modulo 2^16
RunChecksum(s, r) ==
  LET u == s[r].u
      n == s[r].n
      bytes == Sum([j \in 1..Len(u) |-> CharCode[u[j]]]) % 65536
      moment == Sum([j \in 1..Len(u) |-> j * CharCode[u[j]]]) % 65536
      shifts == (MulMod(n % 65536, Offset(s, r) % 65536) + MulMod(Len(u), Triangle(n))) % 65536
  IN  (MulMod(n % 65536, moment) + MulMod(bytes, shifts)) % 65536

\* crypto.subtle.digest: the HashBytes bytes of the digest of message
SubtleDigest(message) ==
  LET h == MulMod((5381 + Sum([r \in 1..Len(message) |-> RunChecksum(message, r) + 1])
                   - Len(message)) % 65536, 33)
  IN  [i \in 1..HashBytes |-> IF i % 2 = 1 THEN h \div 256 ELSE h % 256]

\* byte.toString(16).padStart(2, '0') for each byte, joined
HexOf(bytes) ==
  [i \in 1..(2 * Len(bytes)) |->
     LET b == bytes[(i + 1) \div 2]
     IN  HexDigits[(IF i % 2 = 1 THEN b \div 16 ELSE b % 16) + 1]]

createHash(message) == Lit(HexOf(SubtleDigest(message)))

hashData(data) == createHash(data)

(***************************************************************************)
(* getEntropy: Shannon entropy of the character frequencies of a string.   *)
(* Math.log2 is tabulated in thousandths for 1..64, the lengths and        *)
(* frequencies a provider's result ('' or a digest) can have.              *)
(***************************************************************************)
Log2Milli ==
  <<0, 1000, 1585, 2000, 2322, 2585, 2807, 3000, 3170, 3322, 3459, 3585, 3700,
    3807, 3907, 4000, 4087, 4170, 4248, 4322, 4392, 4459, 4524, 4585, 4644, 4700,
    4755, 4807, 4858, 4907, 4954, 5000, 5044, 5087, 5129, 5170, 5209, 5248, 5285,
    5322, 5358, 5392, 5426, 5459, 5492, 5524, 5555, 5585, 5615, 5644, 5672, 5700,
    5728, 5755, 5781, 5807, 5833, 5858, 5883, 5907, 5931, 5954, 5977, 6000>>

\* the distinct characters of s: the keys of `frequencies`
CharsOf(s) == UNION {{s[r].u[i] : i \in 1..Len(s[r].u)} : r \in 1..Len(s)}

\* frequencies[c] after the loop over s
Frequency(s, c) ==
  Sum([r \in 1..Len(s) |-> 1 + s[r].n * Cardinality({i \in 1..Len(s[r].u) : s[r].u[i] = c})])
  - Len(s)

\* -p * Math.log2(p) for p = freq / len, in units of 1 / (1000 * len)
PLogP(freq, len) == freq * (Log2Milli[len] - Log2Milli[freq])

\* the reduce over Object.values(frequencies), from 0
getEntropy(str) ==
  LET len == StrLen(str)
      cs == CharsOf(str)
  IN  IF cs = {} THEN Zero
      ELSE Rat(Sum([c \in cs |-> 1 + PLogP(Frequency(str, c), len)]) - Cardinality(cs),
               1000 * len)

(***************************************************************************)
(* String.prototype.repeat(count): count NaN counts as 0; a negative or    *)
(* infinite count raises RangeError.                                       *)
(***************************************************************************)
RepeatThrows(count) == Less(count, Zero) \/ count = PosInf

repeat(str, count) == StrTimes(str, IF IsNaN(count) THEN 0 ELSE count[1])

\* Math.floor(weight * 100)
RepeatCount(weight) == Floor(Mul(weight, <<100, 1>>))

(***************************************************************************)
(* BOUNDS AND INPUTS                                                       *)
(***************************************************************************)
\* public calls (generateVisitorId, adjustWeights, setWeights, getWeights,
\* a caller's write to a returned table) made in one behaviour
MaxCalls == 3

Keys == {"canvas", "webGL", "audio", "fonts"}

\* the order of weightedComponents and of the keys of `weights`
Signals == <<"canvas", "webGL", "audio", "fonts">>

\* private weights = { canvas: 0.3, webGL: 0.25, audio: 0.25, fonts: 0.2 }
DefaultWeights ==
  [canvas |-> <<3, 10>>, webGL |-> <<1, 4>>, audio |-> <<1, 4>>, fonts |-> <<1, 5>>]

\* arguments of setWeights
Partials ==
  { [k \in {"canvas"} |-> <<-1, 10>>],
    [k \in {"canvas"} |-> <<1, 2>>],
    [k \in {"canvas"} |-> Zero],
    [k \in {"canvas"} |-> <<-7, 10>>],
    [k \in Keys |-> Zero],
    [canvas |-> <<2, 5>>, webGL |-> <<3, 10>>, audio |-> <<1, 5>>, fonts |-> <<1, 10>>] }

\* what a caller stores into a table it got from getWeights
CallerValues == {<<9, 1>>}

\* What the platform gives a provider at one call: ok is whether the
\* capability is there (a 2d context; a WebGL context with the debug
\* extension), raw the string the provider hashes.
CanvasEnv == {[ok |-> FALSE, raw |-> <<>>], [ok |-> TRUE, raw |-> Lit(<<"A">>)]}

WebGLEnv == {[ok |-> FALSE, raw |-> <<>>], [ok |-> TRUE, raw |-> Lit(<<"N", "~", "G">>)]}

AudioEnv ==
  {[ok |-> TRUE, raw |-> Lit(<<"0">>)], [ok |-> TRUE, raw |-> Lit(<<"1", "1", "7">>)]}

FontsEnv ==
  { [ok |-> TRUE, raw |-> <<>>],
    [ok |-> TRUE,
     raw |-> Lit(<<"G", "e", "o", "r", "g", "i", "a", ",",
                   "P", "a", "l", "a", "t", "i", "n", "o">>)] }

Env == [canvas |-> CanvasEnv, webGL |-> WebGLEnv, audio |-> AudioEnv, fonts |-> FontsEnv]

(***************************************************************************)
(* PROVIDERS                                                               *)
(***************************************************************************)
\* if (!ctx) return ''; ... return await this.hashData(this.canvas.toDataURL())
getCanvasFingerprint(e) == IF ~e.ok THEN <<>> ELSE hashData(e.raw)

\* if (!gl) return ''; if (!debugInfo) return ''; return await this.hashData(...)
getWebGLFingerprint(e) == IF ~e.ok THEN <<>> ELSE hashData(e.raw)

\* resolve(this.hashData(frequencyData.join(',')))
getAudioFingerprint(e) == hashData(e.raw)

\* await this.hashData(this.getFontList().join(','))
getFontFingerprint(e) == hashData(e.raw)

\* the value the await of signal sig resumes with
Provide(sig, e) ==
  CASE sig = "canvas" -> getCanvasFingerprint(e)
    [] sig = "webGL" -> getWebGLFingerprint(e)
    [] sig = "audio" -> getAudioFingerprint(e)
    [] sig = "fonts" -> getFontFingerprint(e)

\* Provide and getEntropy(Provide) over the platform's inputs, tabulated
Fingerprint == [sig \in Keys |-> [e \in Env[sig] |-> Provide(sig, e)]]

FingerprintEntropy ==
  [sig \in Keys |-> [e \in Env[sig] |-> getEntropy(Fingerprint[sig][e])]]

(***************************************************************************)
(* STATE                                                                   *)
(***************************************************************************)
VARIABLES
  heap,        \* the weight-table objects alive: object id -> table
  weightsRef,  \* this.weights: the id of the engine's table
  held,        \* the object the caller last got from getWeights (0: none)
  gen,         \* the generateVisitorId call in flight: its pc and its locals
  adj,         \* the adjustWeights call in flight: its pc and its locals
  runs,        \* history: the generateVisitorId calls that have settled
  last,        \* history: the step just taken
  nCalls       \* public calls made so far

vars == <<heap, weightsRef, held, gen, adj, runs, last, nCalls>>

\* this.weights
weights == heap[weightsRef]

\* the id a new object gets
NewRef(h) == CHOOSE o \in 1..(Cardinality(DOMAIN h) + 1) : o \notin DOMAIN h

\* the objects still referenced
Collect(h, roots) == [o \in (DOMAIN h) \cap roots |-> h[o]]

GenIdle ==
  [pc |-> "idle", fp |-> <<>>, raw |-> <<>>, wStart |-> DefaultWeights,
   wRead |-> DefaultWeights, combinedFingerprint |-> <<>>]

AdjIdle == [pc |-> "idle", entropy |-> <<>>]

NoStep ==
  [op |-> "new", before |-> DefaultWeights, arg |-> <<>>, outcome |-> "ok", total |-> Zero]

Step(op, arg, outcome, total) ==
  [op |-> op, before |-> weights, arg |-> arg, outcome |-> outcome, total |-> total]

\* constructor and field initialisers
Init ==
  /\ heap = (1 :> DefaultWeights)
  /\ weightsRef = 1
  /\ held = 0
  /\ gen = GenIdle
  /\ adj = AdjIdle
  /\ runs = <<>>
  /\ last = NoStep
  /\ nCalls = 0

(***************************************************************************)
(* WEIGHT TABLE: getWeights, setWeights                                    *)
(***************************************************************************)
\* a getWeights that hands out this.weights itself (return this.weights)
getWeightsAliased(h, ref) == [heap |-> h, ret |-> ref]

\* { ...this.weights }: a new object with the fields of object ref
getWeights(h, ref) ==
  LET o == NewRef(h) IN [heap |-> h @@ (o :> h[ref]), ret |-> o]

\* console.log(..., fingerprintSDK.getWeights()): the caller takes a table
GetWeights ==
  /\ nCalls < MaxCalls
  /\ LET r == getWeights(Collect(heap, {weightsRef}), weightsRef)
     IN  /\ heap' = r.heap
         /\ held' = r.ret
  /\ last' = Step("getWeights", <<>>, "ok", Zero)
  /\ nCalls' = nCalls + 1
  /\ UNCHANGED <<weightsRef, gen, adj, runs>>

\* the caller assigns field k of the table it was given
CallerWrite(k, v) ==
  /\ nCalls < MaxCalls
  /\ held # 0
  /\ heap' = [heap EXCEPT ![held] = [@ EXCEPT ![k] = v]]
  /\ last' = Step("callerWrite", <<>>, "ok", Zero)
  /\ nCalls' = nCalls + 1
  /\ UNCHANGED <<weightsRef, held, gen, adj, runs>>

\* a merge into the defaults instead of the table ({ ...defaults, ...newWeights })
MergedIntoDefaults(w, newWeights) ==
  [k \in Keys |-> IF k \in DOMAIN newWeights THEN newWeights[k] ELSE DefaultWeights[k]]

\* { ...this.weights, ...newWeights }
Merged(w, newWeights) ==
  [k \in Keys |-> IF k \in DOMAIN newWeights THEN newWeights[k] ELSE w[k]]

\* Object.values(w).reduce((a, b) => a + b, 0)
SumOf(w) ==
  Add(Add(Add(Add(Zero, w[Signals[1]]), w[Signals[2]]), w[Signals[3]]), w[Signals[4]])

\* for (const key in this.weights) this.weights[key] /= sum
Normalized(w) == LET sum == SumOf(w) IN [k \in Keys |-> Div(w[k], sum)]

\* the table setWeights(newWeights) leaves in this.weights
setWeights(w, newWeights) == Normalized(Merged(w, newWeights))

\* fingerprintSDK.setWeights(newWeights): no check, no throw
SetWeights(newWeights) ==
  /\ nCalls < MaxCalls
  /\ LET kept == Collect(heap, {held})
         o == NewRef(kept)
     IN  /\ heap' = kept @@ (o :> setWeights(weights, newWeights))
         /\ weightsRef' = o
  /\ last' = Step("setWeights", newWeights, "ok", SumOf(Merged(weights, newWeights)))
  /\ nCalls' = nCalls + 1
  /\ UNCHANGED <<held, gen, adj, runs>>

(***************************************************************************)
(* generateVisitorId: suspended at each await; the weights are read in the *)
(* continuation of the last provider's await.                              *)
(***************************************************************************)
\* [ canvasFingerprint.repeat(Math.floor(this.weights.canvas * 100)), ... ]
weightedComponents(fp, w) ==
  [i \in 1..Len(Signals) |-> repeat(fp[i], RepeatCount(w[Signals[i]]))]

\* some repeat of the array literal raises RangeError
ComponentsThrow(w) == \E k \in Keys : RepeatThrows(RepeatCount(w[k]))

RECURSIVE Join(_)
\* parts.join('')
Join(parts) == IF parts = <<>> THEN <<>> ELSE StrConcat(Join(SubSeq(parts, 1, Len(parts) - 1)), parts[Len(parts)])

\* the record of a settled call
Settled(g, outcome, id) ==
  [raw |-> g.raw, fp |-> g.fp, wStart |-> g.wStart, wRead |-> g.wRead,
   outcome |-> outcome, id |-> id]

\* fingerprintSDK.generateVisitorId(): runs to the first await
GenCall ==
  /\ nCalls < MaxCalls
  /\ gen.pc = "idle"
  /\ gen' = [GenIdle EXCEPT !.pc = "canvas", !.wStart = weights, !.wRead = weights]
  /\ last' = Step("generateVisitorId", <<>>, "ok", Zero)
  /\ nCalls' = nCalls + 1
  /\ UNCHANGED <<heap, weightsRef, held, adj, runs>>

\* the await of provider sig resumes and the next provider is called
GenResume(sig, next) ==
  /\ gen.pc = sig
  /\ \E e \in Env[sig] :
       gen' = [gen EXCEPT !.pc = next,
                          !.fp = Append(@, Fingerprint[sig][e]),
                          !.raw = Append(@, e.raw)]
  /\ last' = Step("generateVisitorId", <<>>, "ok", Zero)
  /\ UNCHANGED <<heap, weightsRef, held, adj, runs, nCalls>>

GenCanvas == GenResume("canvas", "webGL")

GenWebGL == GenResume("webGL", "audio")

GenAudio == GenResume("audio", "fonts")

\* fontFingerprint arrives; weightedComponents and combinedFingerprint are
\* built from this.weights as it is now; hashData(combinedFingerprint) starts
GenFonts ==
  /\ gen.pc = "fonts"
  /\ \E e \in Env["fonts"] :
       LET g == [gen EXCEPT !.fp = Append(@, Fingerprint["fonts"][e]),
                            !.raw = Append(@, e.raw),
                            !.wRead = weights]
       IN  IF ComponentsThrow(weights)
           THEN /\ gen' = GenIdle
                /\ runs' = Append(runs, Settled(g, "RangeError", <<>>))
           ELSE /\ gen' = [g EXCEPT !.pc = "hash",
                                    !.combinedFingerprint = Join(weightedComponents(g.fp, weights))]
                /\ runs' = runs
  /\ last' = Step("generateVisitorId", <<>>, "ok", Zero)
  /\ UNCHANGED <<heap, weightsRef, held, adj, nCalls>>

\* a return that hashes the combined string appended to what the previous
\* call hashed (the combined string kept in a field instead of a local)
GenReturnAccumulating ==
  /\ gen.pc = "hash"
  /\ LET kept == IF runs = <<>> THEN <<>> ELSE runs[Len(runs)].id
     IN  runs' = Append(runs, Settled(gen, "ok",
                                      hashData(StrConcat(kept, gen.combinedFingerprint))))
  /\ gen' = GenIdle
  /\ last' = Step("generateVisitorId", <<>>, "ok", Zero)
  /\ UNCHANGED <<heap, weightsRef, held, adj, nCalls>>

\* return await this.hashData(combinedFingerprint)
GenReturn ==
  /\ gen.pc = "hash"
  /\ runs' = Append(runs, Settled(gen, "ok", hashData(gen.combinedFingerprint)))
  /\ gen' = GenIdle
  /\ last' = Step("generateVisitorId", <<>>, "ok", Zero)
  /\ UNCHANGED <<heap, weightsRef, held, adj, nCalls>>

(***************************************************************************)
(* adjustWeights: suspended at each await; this.weights is replaced in the *)
(* continuation of the last provider's await.                              *)
(***************************************************************************)
\* { canvas: canvasEntropy / totalEntropy, ... }
adjustWeights(entropy) ==
  LET totalEntropy == Add(Add(Add(entropy[1], entropy[2]), entropy[3]), entropy[4])
  IN  [k \in Keys |->
         Div(entropy[CHOOSE i \in 1..Len(Signals) : Signals[i] = k], totalEntropy)]

\* fingerprintSDK.adjustWeights(): runs to the first await
AdjCall ==
  /\ nCalls < MaxCalls
  /\ adj.pc = "idle"
  /\ adj' = [AdjIdle EXCEPT !.pc = "canvas"]
  /\ last' = Step("adjustWeights.await", <<>>, "ok", Zero)
  /\ nCalls' = nCalls + 1
  /\ UNCHANGED <<heap, weightsRef, held, gen, runs>>

\* the await of provider sig resumes, its entropy is taken, the next provider is called
AdjResume(sig, next) ==
  /\ adj.pc = sig
  /\ \E e \in Env[sig] :
       adj' = [adj EXCEPT !.pc = next,
                          !.entropy = Append(@, FingerprintEntropy[sig][e])]
  /\ last' = Step("adjustWeights.await", <<>>, "ok", Zero)
  /\ UNCHANGED <<heap, weightsRef, held, gen, runs, nCalls>>

AdjCanvas == AdjResume("canvas", "webGL")

AdjWebGL == AdjResume("webGL", "audio")

AdjAudio == AdjResume("audio", "fonts")

\* fontEntropy arrives; totalEntropy is summed and this.weights replaced: no
\* check, no throw
AdjFonts ==
  /\ adj.pc = "fonts"
  /\ \E e \in Env["fonts"] :
       LET entropy == Append(adj.entropy, FingerprintEntropy["fonts"][e])
           kept == Collect(heap, {held})
           o == NewRef(kept)
       IN  /\ heap' = kept @@ (o :> adjustWeights(entropy))
           /\ weightsRef' = o
           /\ last' = Step("adjustWeights", <<>>, "ok",
                           Add(Add(Add(entropy[1], entropy[2]), entropy[3]), entropy[4]))
  /\ adj' = AdjIdle
  /\ UNCHANGED <<held, gen, runs, nCalls>>

Next ==
  \/ GetWeights
  \/ \E k \in Keys, v \in CallerValues : CallerWrite(k, v)
  \/ \E p \in Partials : SetWeights(p)
  \/ GenCall
  \/ GenCanvas
  \/ GenWebGL
  \/ GenAudio
  \/ GenFonts
  \/ GenReturn
  \/ AdjCall
  \/ AdjCanvas
  \/ AdjWebGL
  \/ AdjAudio
  \/ AdjFonts

Spec == Init /\ [][Next]_vars

(***************************************************************************)
(* PROPERTIES.  `last` holds the step just taken and the table before it,  *)
(* `runs` the generateVisitorId calls that have settled.                   *)
(***************************************************************************)
\* x >= 0
NonNegative(x) == ~IsNaN(x) /\ ~Less(x, Zero)

\* the sum of { ...before, ...partial }, from the two tables themselves
MergedTotal(before, partial) ==
  LET m == [k \in Keys |-> IF k \in DOMAIN partial THEN partial[k] ELSE before[k]]
  IN  Add(Add(Add(Add(Zero, m["canvas"]), m["webGL"]), m["audio"]), m["fonts"])

\* a supplied weight is negative, or the merged table's total is zero
InvalidPartial(before, partial) ==
  \/ \E k \in DOMAIN partial : Less(partial[k], Zero)
  \/ MergedTotal(before, partial) = Zero

\* C1: a setWeights call whose partial has a negative weight, or whose merged
\* total is zero, ends in InvalidWeightError and leaves the table exactly as
\* it was before the call.
C1_AtomicOrNothing ==
  (last.op = "setWeights" /\ InvalidPartial(last.before, last.arg))
    => (last.outcome = "InvalidWeightError" /\ weights = last.before)

\* C2: right after every setWeights and every adjustWeights that succeeded
\* the weights of the table sum to 1 and each of them is >= 0.
C2_Normalized ==
  (last.op \in {"setWeights", "adjustWeights"} /\ last.outcome = "ok")
    => (SumOf(weights) = One /\ \A k \in Keys : NonNegative(weights[k]))

C4_NeverFails ==
  \A i \in 1..Len(runs) :
    /\ runs[i].outcome = "ok"
    /\ \A k \in Keys :
         LET count == RepeatCount(runs[i].wRead[k])
         IN  IsFinite(count) /\ NonNegative(count)

\* what a run over the provider results fp settles with under the table w
RunResult(fp, w) ==
  IF ComponentsThrow(w) THEN [outcome |-> "RangeError", id |-> <<>>]
  ELSE [outcome |-> "ok", id |-> hashData(Join(weightedComponents(fp, w)))]

\* C5: every generateVisitorId call settles with the result computed from
\* the weights that were in the table when the call started, whatever
\* setWeights or adjustWeights wrote while it was suspended at a provider.
C5_WeightSnapshot ==
  \A i \in 1..Len(runs) :
    LET r == runs[i]
        want == RunResult(r.fp, r.wStart)
    IN  r.outcome = want.outcome /\ r.id = want.id

\* C6: two generateVisitorId calls whose providers gave the same raw values
\* and which ran under the same weight table settled alike, with the same
\* identifier; and no step of generateVisitorId changes the weight table.
C6_Determinism ==
  /\ \A i, j \in 1..Len(runs) :
       (runs[i].raw = runs[j].raw /\ runs[i].wRead = runs[j].wRead)
         => (runs[i].outcome = runs[j].outcome /\ runs[i].id = runs[j].id)
  /\ last.op = "generateVisitorId" => weights = last.before

\* two calls with the same raw values, none of them '', have run under the
\* same table, not the default one, and have returned the same identifier
C6_Witness ==
  /\ Len(runs) = 2
  /\ runs[1].raw = runs[2].raw /\ \A t \in 1..Len(Signals) : runs[1].raw[t] # <<>>
  /\ runs[1].wRead = runs[2].wRead /\ runs[1].wRead # DefaultWeights
  /\ runs[1].outcome = "ok" /\ runs[2].outcome = "ok"
  /\ runs[1].id = runs[2].id

\* C7: the table getWeights returns is an object of its own, equal to the
\* engine's table when returned; a caller's write to it leaves the engine's
\* table as it was, for every later getWeights and generateVisitorId.
C7_DefensiveCopy ==
  /\ held # weightsRef
  /\ last.op = "getWeights" => heap[held] = weights
  /\ last.op = "callerWrite" => weights = last.before

\* the caller has changed the table it was given, and the engine's differs
C7_Witness ==
  /\ last.op = "callerWrite"
  /\ heap[held] # weights
  /\ weights = last.before

\* x / y is a number: x and y are finite and y is not 0
RatioDefined(x, y) == IsFinite(x) /\ IsFinite(y) /\ y # Zero

\* C8: after setWeights(partial) with no negative weight and a non-zero
\* merged total, each key named in partial is at supplied / total, each other
\* key at its prior weight / total, and two keys not named keep the ratio
\* they had before the call.
C8_MergeSemantics ==
  (last.op = "setWeights" /\ ~InvalidPartial(last.before, last.arg)) =>
    LET total == MergedTotal(last.before, last.arg)
        named == DOMAIN last.arg
    IN  /\ \A k \in named : weights[k] = Div(last.arg[k], total)
        /\ \A k \in Keys \ named : weights[k] = Div(last.before[k], total)
        /\ \A k1, k2 \in Keys \ named :
             RatioDefined(last.before[k1], last.before[k2])
               => Div(weights[k1], weights[k2]) = Div(last.before[k1], last.before[k2])

\* a valid partial has changed a table that was no longer the default one,
\* and two keys it does not name had different weights
C8_Witness ==
  /\ last.op = "setWeights" /\ ~InvalidPartial(last.before, last.arg)
  /\ last.before # DefaultWeights /\ weights # last.before
  /\ \E k1, k2 \in Keys \ DOMAIN last.arg :
       /\ RatioDefined(last.before[k1], last.before[k2])
       /\ last.before[k1] # last.before[k2]

\* weight < 0.01
BelowOnePercent(w) == Less(w, <<1, 100>>)

\* the identifier of the fragments of run r, in the order of Signals, with
\* the fragment of signal s left out
IdWithout(r, s) ==
  hashData(Join([t \in 1..Len(Signals) |->
                   IF t = s THEN <<>>
                   ELSE repeat(r.fp[t], RepeatCount(r.wRead[Signals[t]]))]))

\* C9: a run in which a signal's weight is below 0.01 returns the identifier
\* of the other signals' fragments concatenated in the order of Signals (that
\* signal's fragment has length zero), and a second run under the same
\* table that differs from it in that signal's raw value alone returns the
\* same identifier.
C9_WeightedCombination ==
  \A i \in 1..Len(runs), s \in 1..Len(Signals) :
    BelowOnePercent(runs[i].wRead[Signals[s]]) =>
      /\ runs[i].outcome = "ok"
      /\ runs[i].id = IdWithout(runs[i], s)
      /\ \A j \in 1..Len(runs) :
           ( /\ runs[j].wRead = runs[i].wRead
             /\ \A t \in 1..Len(Signals) : t # s => runs[j].raw[t] = runs[i].raw[t] )
             => (runs[j].outcome = "ok" /\ runs[j].id = runs[i].id)

\* C10: every value generateVisitorId repeats and concatenates is the digest
\* of the signal's raw value, 2 * HashBytes hex characters long, also when
\* the provider's capability is missing and the raw value is ''; the string
\* it hashes is built of those digests.
C10_EverySignalDigested ==
  /\ \A i \in 1..Len(gen.fp) :
       gen.fp[i] = hashData(gen.raw[i]) /\ StrLen(gen.fp[i]) = 2 * HashBytes
  /\ gen.pc = "hash" =>
       gen.combinedFingerprint =
         Join([i \in 1..Len(Signals) |->
                 repeat(hashData(gen.raw[i]), RepeatCount(gen.wRead[Signals[i]]))])

\* C11: setWeights and adjustWeights are synchronous with respect to each
\* other: no setWeights takes effect between the start of an adjustWeights
\* call and its write of the table (so the write never replaces, unseen, the
\* table a setWeights installed after adjustWeights started), and no
\* getWeights returns a table that an adjustWeights already called has yet to
\* replace.
C11_MutationsSynchronous ==
  /\ last.op = "setWeights" => adj.pc = "idle"
  /\ last.op = "getWeights" => adj.pc = "idle"

====
